---- MODULE Spec2Model ----
(***************************************************************************)
(* A model of smart-text-search (src/src/index.ts): the single entry point *)
(* search({query, body, options}) and the functions it calls.              *)
(*                                                                         *)
(* Strings are sequences of one-character strings.  Numbers are kept in    *)
(* fixed point: the length multipliers of the configuration are held in    *)
(* halves (1.5 is 3), the word multiplier of getCustomWordMultiplier in    *)
(* tenths (0.1 is 1), and a score in twentieths (70 points are 1400).      *)
(* A configuration value is tagged with its JavaScript type, so that       *)
(* undefined is a value a key can hold.                                    *)
(***************************************************************************)
EXTENDS Integers, Sequences, FiniteSets, TLC

VARIABLES
    query,                          \* SearchInputs.query
    body,                           \* SearchInputs.body
    options,                        \* SearchInputs.options: a partial record
    cfg,                            \* the destructured { ...defaults, ...options }
    pc,                             \* the position inside search
    score,                          \* let score
    formattedQuery,
    formattedBody,
    queryWords,
    bodyWords,
    invoked,                        \* the scorer functions called so far
    thrown,                         \* the exception that ended the call, if any
    firstQueryWord,                 \* the locals of
    firstBodyWord,                  \*   getConsecutiveWordSequenceMatchScore
    matchIndexes,
    currentConsecutiveWords,
    currentConsecutiveWordSequence,
    mostConsecutiveWords,
    longestConsecutiveWordSequence

vars == <<query, body, options, cfg, pc, score, formattedQuery, formattedBody,
          queryWords, bodyWords, invoked, thrown, firstQueryWord, firstBodyWord,
          matchIndexes, currentConsecutiveWords, currentConsecutiveWordSequence,
          mostConsecutiveWords, longestConsecutiveWordSequence>>

scanVars == <<firstQueryWord, firstBodyWord, matchIndexes,
              currentConsecutiveWords, currentConsecutiveWordSequence,
              mostConsecutiveWords, longestConsecutiveWordSequence>>

-----------------------------------------------------------------------------
(* Bounds of the model.                                                    *)

MaxQueryLen == 2
MaxBodyLen == 3
MaxTextLen == 4
MaxQueryTokens == 2
MaxBodyTokens == 3
MaxOverrideKeys == 2

-----------------------------------------------------------------------------
(* Characters and character classes.                                       *)

UpperCase == <<"A", "B", "I">>
LowerCase == <<"a", "b", "i">>

\* \w of the regular expressions: [A-Za-z0-9_], as far as the model's
\* alphabets go.
WordChars == {"a", "b", "i", "A", "B", "I", "_"}

\* \s of the regular expressions.
WhitespaceChars == {" ", "\t"}

\* [/#%&=-], replaced by a space when punctuation must not match.
SpacedPunctuation == {"/", "#", "%", "&", "=", "-"}

\* The class deleted when punctuation must not match (line 207), without
\* its backquote, which a string of this module cannot hold.
DeletedPunctuation ==
    {".", ",", "'", "!", "$", "^", "*", ";", ":", "{", "}", "~", "(", ")"}

\* The character class of getCustomWordMultiplier (line 66), without its
\* backquote.
SymbolChars ==
    {" ", "!", "@", "#", "$", "%", "^", "&", "*", "(", ")", "_", "+",
     "-", "=", "[", "]", "{", "}", ";", "'", ":", "\"", "\\", "|", ",", ".",
     "<", ">", "/", "?", "~"}

\* The five words getCustomWordMultiplier halves.
CommonWords ==
    {<<"t", "h", "e">>, <<"a">>, <<"o", "f">>, <<"I">>, <<"a", "n", "d">>}

\* Characters that are syntax in a RegExp pattern.
PatternSyntaxChars ==
    {"\\", "^", "$", ".", "|", "?", "*", "+", "(", ")", "[", "]", "{", "}"}

Max(a, b) == IF a >= b THEN a ELSE b

\* All sequences over S of length at most n.
SeqsUpTo(S, n) == UNION {[1..m -> S] : m \in 0..n}

-----------------------------------------------------------------------------
(* getConfiguredText: the normalizer.                                      *)

\* String.prototype.toLocaleLowerCase, one character.
LowerChar(c) ==
    IF \E i \in 1..Len(UpperCase) : UpperCase[i] = c
    THEN LowerCase[CHOOSE i \in 1..Len(UpperCase) : UpperCase[i] = c]
    ELSE c

toLocaleLowerCase(text) == [i \in 1..Len(text) |-> LowerChar(text[i])]

\* text.replace(/[/#%&=-]/g, " ")
ReplaceSpacedPunctuation(text) ==
    [i \in 1..Len(text) |->
        IF text[i] \in SpacedPunctuation THEN " " ELSE text[i]]

\* text.replace(<DeletedPunctuation>, "")
DeleteDeletedPunctuation(text) ==
    SelectSeq(text, LAMBDA c : c \notin DeletedPunctuation)

\* The length of the run of whitespace that starts at position p.
RECURSIVE WhitespaceRun(_, _)
WhitespaceRun(text, p) ==
    IF p <= Len(text) /\ text[p] \in WhitespaceChars
    THEN 1 + WhitespaceRun(text, p + 1)
    ELSE 0

\* text.replace(/\s\s+/g, " "), scanning from position p.
RECURSIVE CollapseFrom(_, _)
CollapseFrom(text, p) ==
    IF p > Len(text) THEN <<>>
    ELSE LET run == WhitespaceRun(text, p)
         IN  IF run >= 2
             THEN <<" ">> \o CollapseFrom(text, p + run)
             ELSE <<text[p]>> \o CollapseFrom(text, p + 1)

CollapseWhitespace(text) == CollapseFrom(text, 1)

\* getConfiguredText with the whitespace collapsed before the punctuation is
\* removed.
getConfiguredTextCollapsingFirst(text, isCaseSensitive, shouldMatchPunctuation, shouldCollapseWhitespace) ==
    LET t1 == IF ~isCaseSensitive THEN toLocaleLowerCase(text) ELSE text
        t2 == IF shouldCollapseWhitespace THEN CollapseWhitespace(t1) ELSE t1
    IN  IF ~shouldMatchPunctuation
        THEN DeleteDeletedPunctuation(ReplaceSpacedPunctuation(t2))
        ELSE t2

getConfiguredText(text, isCaseSensitive, shouldMatchPunctuation, shouldCollapseWhitespace) ==
    LET t1 == IF ~isCaseSensitive THEN toLocaleLowerCase(text) ELSE text
        t2 == IF ~shouldMatchPunctuation
              THEN DeleteDeletedPunctuation(ReplaceSpacedPunctuation(t1))
              ELSE t1
    IN  IF shouldCollapseWhitespace THEN CollapseWhitespace(t2) ELSE t2

-----------------------------------------------------------------------------
(* getWords: the tokenizer.                                                *)

\* The length of the run of characters of class S that starts at position p.
RECURSIVE RunIn(_, _, _)
RunIn(text, p, S) ==
    IF p <= Len(text) /\ text[p] \in S THEN 1 + RunIn(text, p + 1, S) ELSE 0

\* The length of the run of characters outside S that starts at position p.
RECURSIVE RunOutside(_, _, _)
RunOutside(text, p, S) ==
    IF p <= Len(text) /\ text[p] \notin S
    THEN 1 + RunOutside(text, p + 1, S)
    ELSE 0

\* text.split(/(\W+)/) from position p: a word (possibly empty), then each
\* run of non-word characters followed by the next word.
RECURSIVE SplitNonWordFrom(_, _)
SplitNonWordFrom(text, p) ==
    LET w == RunIn(text, p, WordChars)
        d == RunOutside(text, p + w, WordChars)
    IN  IF p + w > Len(text)
        THEN <<SubSeq(text, p, p + w - 1)>>
        ELSE <<SubSeq(text, p, p + w - 1), SubSeq(text, p + w, p + w + d - 1)>>
             \o SplitNonWordFrom(text, p + w + d)

\* text.match(/\S+/g) || [] from position p: the maximal runs of
\* non-whitespace characters.
RECURSIVE MatchNonWhitespaceFrom(_, _)
MatchNonWhitespaceFrom(text, p) ==
    IF p > Len(text) THEN <<>>
    ELSE LET r == RunOutside(text, p, WhitespaceChars)
         IN  IF r = 0
             THEN MatchNonWhitespaceFrom(text, p + 1)
             ELSE <<SubSeq(text, p, p + r - 1)>>
                  \o MatchNonWhitespaceFrom(text, p + r)

\* getWords splitting on /\W+/ without the capturing group: the delimiters
\* are dropped.
getWordsDroppingDelimiters(text, shouldMatchWhitespaceAndPunctuation, shouldMatchPunctuation) ==
    IF shouldMatchWhitespaceAndPunctuation
    THEN LET all == SplitNonWordFrom(text, 1)
         IN  [i \in 1..((Len(all) + 1) \div 2) |-> all[2 * i - 1]]
    ELSE MatchNonWhitespaceFrom(text, 1)

\* The value of the filter expression of line 94 is dropped: both settings of
\* shouldMatchPunctuation return text.match(/\S+/g) || [].
getWords(text, shouldMatchWhitespaceAndPunctuation, shouldMatchPunctuation) ==
    IF shouldMatchWhitespaceAndPunctuation
    THEN SplitNonWordFrom(text, 1)
    ELSE MatchNonWhitespaceFrom(text, 1)

-----------------------------------------------------------------------------
(* The exact matchers.                                                     *)

getExactMatchScore(q, b) == IF q = b THEN 1 ELSE 0

\* new RegExp(query, "g") throws a SyntaxError on a group that is opened and
\* never closed.
PatternThrows(q) ==
    /\ \E i \in 1..Len(q) : q[i] = "("
    /\ \A i \in 1..Len(q) : q[i] # ")"

\* A pattern without syntax characters matches itself only.
PatternIsLiteral(q) == \A i \in 1..Len(q) : q[i] \notin PatternSyntaxChars

\* Whether the literal pattern q matches b at position p.
MatchesAt(q, b, p) ==
    /\ p + Len(q) - 1 <= Len(b)
    /\ \A j \in 1..Len(q) : b[p + j - 1] = q[j]

\* The number of matches body.match(globalMatch) finds from position p on:
\* after a match the scan goes on behind it, behind an empty match one
\* character further.
RECURSIVE CountMatchesFrom(_, _, _)
CountMatchesFrom(q, b, p) ==
    IF p > Len(b) + 1 THEN 0
    ELSE IF MatchesAt(q, b, p)
         THEN 1 + CountMatchesFrom(q, b, p + Max(Len(q), 1))
         ELSE CountMatchesFrom(q, b, p + 1)

\* (body.match(globalMatch) || []).length, for a literal pattern.
getExactContainingMatchScore(q, b) == CountMatchesFrom(q, b, 1)

-----------------------------------------------------------------------------
(* The frequency scorers.                                                  *)

\* In tenths: 0.1, 0.5, 1.
getCustomWordMultiplier(word) ==
    IF Len(word) = 1 /\ word[1] \in SymbolChars THEN 1
    ELSE IF word \in CommonWords THEN 5
    ELSE 10

\* bodyWords.includes(word)
Includes(words, word) == \E i \in 1..Len(words) : words[i] = word

\* bodyWords.filter((bodyWord) => bodyWord === word).length
Occurrences(words, word) == Cardinality({i \in 1..Len(words) : words[i] = word})

\* numbers.reduce((sum, n) => sum + n, 0)
RECURSIVE Sum(_)
Sum(numbers) ==
    IF numbers = <<>> THEN 0 ELSE Head(numbers) + Sum(Tail(numbers))

\* In twentieths when the multiplier is in halves.
getSingleWordMatchScore(qWords, bWords, singleWordMatchLengthMultiplier) ==
    LET sharedWords == SelectSeq(qWords, LAMBDA w : Includes(bWords, w))
        term(w) == Occurrences(bWords, w) * Len(w)
                   * singleWordMatchLengthMultiplier
                   * getCustomWordMultiplier(w)
    IN  Sum([i \in 1..Len(sharedWords) |-> term(sharedWords[i])])

getUniqueSingleWordMatchScore(qWords, bWords, uniqueSingleWordMatchLengthMultiplier) ==
    LET sharedWords == SelectSeq(qWords, LAMBDA w : Includes(bWords, w))
        term(w) == Len(w) * uniqueSingleWordMatchLengthMultiplier
                   * getCustomWordMultiplier(w)
    IN  Sum([i \in 1..Len(sharedWords) |-> term(sharedWords[i])])

-----------------------------------------------------------------------------
(* getConsecutiveWordSequenceMatchScore as a function of its inputs.       *)

\* The index of every body word equal to word, from 0.  filter(String)
\* keeps each of them: String(0) is "0", which is truthy.
MatchIndexes(bWords, word) ==
    SelectSeq([j \in 1..Len(bWords) |-> j - 1], LAMBDA idx : bWords[idx + 1] = word)

\* words[index] !== undefined, for an index counted from 0.
Defined(words, index) == index >= 0 /\ index < Len(words)

\* queryWords[qi] !== bodyWords[bi]: a missing element is undefined, which
\* differs from every string and equals undefined.
WordsDiffer(qWords, qi, bWords, bi) ==
    \/ Defined(qWords, qi) # Defined(bWords, bi)
    \/ /\ Defined(qWords, qi)
       /\ Defined(bWords, bi)
       /\ qWords[qi + 1] # bWords[bi + 1]

\* The inner loop from firstBodyWord = k on, for the query position i whose
\* word occurs c times in the body.  broke: the loop left through its break,
\* which is where the maxima are assigned.  threw: .length of undefined.
RECURSIVE InnerLoop(_, _, _, _, _, _, _)
InnerLoop(qWords, bWords, i, c, k, words, chars) ==
    IF k >= c
    THEN [broke |-> FALSE, threw |-> FALSE, words |-> words, chars |-> chars]
    ELSE IF WordsDiffer(qWords, i + words, bWords, k + words)
    THEN [broke |-> TRUE, threw |-> FALSE, words |-> words, chars |-> chars]
    ELSE IF ~Defined(bWords, k + words)
    THEN [broke |-> FALSE, threw |-> TRUE, words |-> words, chars |-> chars]
    ELSE InnerLoop(qWords, bWords, i, c, k + 1, words + 1,
                   chars + Len(bWords[k + words + 1]))

\* The outer loop from firstQueryWord = i on.
RECURSIVE OuterLoop(_, _, _, _, _)
OuterLoop(qWords, bWords, i, most, longest) ==
    IF i >= Len(qWords)
    THEN [threw |-> FALSE, mostConsecutiveWords |-> most,
          longestConsecutiveWordSequence |-> longest]
    ELSE LET c == Len(MatchIndexes(bWords, qWords[i + 1]))
             r == InnerLoop(qWords, bWords, i, c, 0, 0, 0)
         IN  IF r.threw
             THEN [threw |-> TRUE, mostConsecutiveWords |-> most,
                   longestConsecutiveWordSequence |-> longest]
             ELSE IF r.broke
             THEN OuterLoop(qWords, bWords, i + 1, Max(most, r.words),
                            Max(longest, r.chars))
             ELSE OuterLoop(qWords, bWords, i + 1, most, longest)

\* The two maxima the loops leave, and whether they threw.
ConsecutiveScan(qWords, bWords) == OuterLoop(qWords, bWords, 0, 0, 0)

\* The returned record, in halves when the multipliers are.
getConsecutiveWordSequenceMatchScore(qWords, bWords, consecutiveWordMatchLengthMultiplier, consecutiveWordSequenceLengthMultiplier) ==
    LET r == ConsecutiveScan(qWords, bWords)
    IN  [threw |-> r.threw,
         consecutiveWordScore |->
             r.mostConsecutiveWords * consecutiveWordMatchLengthMultiplier,
         consecutiveWordSequenceScore |->
             r.longestConsecutiveWordSequence
             * consecutiveWordSequenceLengthMultiplier]

-----------------------------------------------------------------------------
(* The configuration.                                                      *)

Number(n) == [t |-> "number", n |-> n]
Boolean(b) == [t |-> "boolean", b |-> b]
Undefined == [t |-> "undefined"]

PointKeys ==
    {"exactMatchPoints", "exactContainingMatchPoints", "singleWordMatchPoints",
     "uniqueSingleWordMatchPoints", "consecutiveWordMatchPoints",
     "consecutiveWordSequenceMatchPoints"}

MultiplierKeys ==
    {"singleWordMatchLengthMultiplier", "uniqueSingleWordMatchLengthMultiplier",
     "consecutiveWordMatchLengthMultiplier",
     "consecutiveWordSequenceLengthMultiplier"}

FlagKeys ==
    {"isCaseSensitive", "shouldMatchPunctuation",
     "shouldMatchWhitespaceAndPunctuation", "shouldCollapseWhitespace"}

\* The 14 keys of SearchOptions.
OptionKeys == PointKeys \cup MultiplierKeys \cup FlagKeys

\* The multipliers in halves: 1.5 is 3, 2 is 4.
defaultSearchOptions ==
    [exactMatchPoints |-> Number(70),
     exactContainingMatchPoints |-> Number(50),
     singleWordMatchPoints |-> Number(1),
     singleWordMatchLengthMultiplier |-> Number(3),
     uniqueSingleWordMatchPoints |-> Number(2),
     uniqueSingleWordMatchLengthMultiplier |-> Number(3),
     consecutiveWordMatchPoints |-> Number(5),
     consecutiveWordMatchLengthMultiplier |-> Number(4),
     consecutiveWordSequenceMatchPoints |-> Number(1),
     consecutiveWordSequenceLengthMultiplier |-> Number(3),
     isCaseSensitive |-> Boolean(FALSE),
     shouldMatchPunctuation |-> Boolean(TRUE),
     shouldMatchWhitespaceAndPunctuation |-> Boolean(TRUE),
     shouldCollapseWhitespace |-> Boolean(TRUE)]

\* { ...defaults, ...override }: every key the override holds, whatever its
\* value, replaces the default's.
MergeOptions(defaults, override) ==
    [k \in DOMAIN defaults \cup DOMAIN override |->
        IF k \in DOMAIN override THEN override[k] ELSE defaults[k]]

\* A destructured number.
Num(k) == cfg[k].n

\* A destructured flag, as a condition: undefined is falsy.
Flag(k) == cfg[k].t = "boolean" /\ cfg[k].b

-----------------------------------------------------------------------------
(* The inputs the model draws.                                             *)

\* A word character, a whitespace character, and a punctuation character
\* that is also pattern syntax.
Chars == {"a", " ", "("}

\* The alphabet of the normalizer's texts: an upper-case letter, two
\* whitespace characters, one character of each punctuation class.
NormChars == {"A", " ", "\t", "-", "."}

\* The words of the token sequences drawn directly.
TokenValues == {<<"a">>, <<"b">>, <<"b", "b">>}

\* Each flag either left out or set against its default.
FlagOverrides(K) ==
    {[k \in S |-> Boolean(~defaultSearchOptions[k].b)] : S \in SUBSET K}

\* Every key of K set to the number n.
AllSet(K, n) == [k \in K |-> Number(n)]

\* The numeric overrides of the model: none; every point weight 0, alone and
\* with a negative multiplier; the two exact matchers off; every multiplier
\* 0; one point weight negative; one multiplier negative.
NumericOverrides ==
    {<<>>,
     AllSet(PointKeys, 0),
     MergeOptions(AllSet(PointKeys, 0),
                  AllSet({"consecutiveWordMatchLengthMultiplier"}, -1)),
     AllSet({"exactMatchPoints", "exactContainingMatchPoints"}, 0),
     AllSet(MultiplierKeys, 0),
     AllSet({"singleWordMatchPoints"}, -1),
     AllSet({"consecutiveWordMatchLengthMultiplier"}, -1)}

SearchOverrides ==
    {MergeOptions(f, n) :
        f \in FlagOverrides(FlagKeys \ {"isCaseSensitive"}),
        n \in NumericOverrides}

\* A value a caller can give key k: undefined, or a value of its type that
\* is not the default.
SuppliedValues(k) ==
    {Undefined,
     IF k \in FlagKeys THEN Boolean(~defaultSearchOptions[k].b)
     ELSE Number(defaultSearchOptions[k].n + 1)}

\* The overrides that hold at most MaxOverrideKeys keys.
SmallOverrides ==
    UNION {{o \in [S -> UNION {SuppliedValues(k) : k \in S}] :
                \A k \in S : o[k] \in SuppliedValues(k)} :
           S \in {T \in SUBSET OptionKeys : Cardinality(T) <= MaxOverrideKeys}}

Idle ==
    /\ score = 0
    /\ formattedQuery = <<>>
    /\ formattedBody = <<>>
    /\ invoked = {}
    /\ thrown = "none"
    /\ firstQueryWord = 0
    /\ firstBodyWord = 0
    /\ matchIndexes = <<>>
    /\ currentConsecutiveWords = 0
    /\ currentConsecutiveWordSequence = 0
    /\ mostConsecutiveWords = 0
    /\ longestConsecutiveWordSequence = 0

\* search is called with a query, a body and an override.
Init ==
    /\ query \in SeqsUpTo(Chars, MaxQueryLen)
    /\ body \in SeqsUpTo(Chars, MaxBodyLen)
    /\ options \in SearchOverrides
    /\ cfg = defaultSearchOptions
    /\ pc = "merge"
    /\ queryWords = <<>>
    /\ bodyWords = <<>>
    /\ Idle

-----------------------------------------------------------------------------
(* search, block by block.                                                 *)

\* Lines 218-238: the override is spread over the defaults; let score = 0.
Merge ==
    /\ pc = "merge"
    /\ cfg' = MergeOptions(defaultSearchOptions, options)
    /\ score' = 0
    /\ pc' = "normalize"
    /\ UNCHANGED <<query, body, options, formattedQuery, formattedBody,
                   queryWords, bodyWords, invoked, thrown, scanVars>>

\* Lines 240-252.
Normalize ==
    /\ pc = "normalize"
    /\ formattedQuery' =
           getConfiguredText(query, Flag("isCaseSensitive"),
                             Flag("shouldMatchPunctuation"),
                             Flag("shouldCollapseWhitespace"))
    /\ formattedBody' =
           getConfiguredText(body, Flag("isCaseSensitive"),
                             Flag("shouldMatchPunctuation"),
                             Flag("shouldCollapseWhitespace"))
    /\ pc' = "exact"
    /\ UNCHANGED <<query, body, options, cfg, score, queryWords, bodyWords,
                   invoked, thrown, scanVars>>

\* Lines 254-257.  A score is in twentieths.
ExactMatch ==
    /\ pc = "exact"
    /\ IF Num("exactMatchPoints") # 0
       THEN /\ score' = score + Num("exactMatchPoints") * 20
                                * getExactMatchScore(formattedQuery, formattedBody)
            /\ invoked' = invoked \cup {"getExactMatchScore"}
       ELSE UNCHANGED <<score, invoked>>
    /\ pc' = "containing"
    /\ UNCHANGED <<query, body, options, cfg, formattedQuery, formattedBody,
                   queryWords, bodyWords, thrown, scanVars>>

\* Lines 259-263 with a weight of 0: the matcher is not called.
ExactContainingSkip ==
    /\ pc = "containing"
    /\ Num("exactContainingMatchPoints") = 0
    /\ pc' = "words"
    /\ UNCHANGED <<query, body, options, cfg, score, formattedQuery,
                   formattedBody, queryWords, bodyWords, invoked, thrown,
                   scanVars>>

\* Lines 259-263, the pattern compiles.
ExactContainingMatch ==
    /\ pc = "containing"
    /\ Num("exactContainingMatchPoints") # 0
    /\ PatternIsLiteral(formattedQuery)
    /\ score' = score + Num("exactContainingMatchPoints") * 20
                        * getExactContainingMatchScore(formattedQuery, formattedBody)
    /\ invoked' = invoked \cup {"getExactContainingMatchScore"}
    /\ pc' = "words"
    /\ UNCHANGED <<query, body, options, cfg, formattedQuery, formattedBody,
                   queryWords, bodyWords, thrown, scanVars>>

\* Lines 259-263, new RegExp throws: search ends with the exception.
ExactContainingThrow ==
    /\ pc = "containing"
    /\ Num("exactContainingMatchPoints") # 0
    /\ PatternThrows(formattedQuery)
    /\ invoked' = invoked \cup {"getExactContainingMatchScore"}
    /\ thrown' = "SyntaxError"
    /\ pc' = "thrown"
    /\ UNCHANGED <<query, body, options, cfg, score, formattedQuery,
                   formattedBody, queryWords, bodyWords, scanVars>>

\* Lines 265-274.
Words ==
    /\ pc = "words"
    /\ queryWords' =
           getWords(formattedQuery, Flag("shouldMatchWhitespaceAndPunctuation"),
                    Flag("shouldMatchPunctuation"))
    /\ bodyWords' =
           getWords(formattedBody, Flag("shouldMatchWhitespaceAndPunctuation"),
                    Flag("shouldMatchPunctuation"))
    /\ pc' = "single"
    /\ UNCHANGED <<query, body, options, cfg, score, formattedQuery,
                   formattedBody, invoked, thrown, scanVars>>

\* Lines 276-284.
SingleWordMatch ==
    /\ pc = "single"
    /\ IF Num("singleWordMatchPoints") # 0
          /\ Num("singleWordMatchLengthMultiplier") # 0
       THEN /\ score' = score + Num("singleWordMatchPoints")
                                * getSingleWordMatchScore(queryWords, bodyWords,
                                      Num("singleWordMatchLengthMultiplier"))
            /\ invoked' = invoked \cup {"getSingleWordMatchScore"}
       ELSE UNCHANGED <<score, invoked>>
    /\ pc' = "unique"
    /\ UNCHANGED <<query, body, options, cfg, formattedQuery, formattedBody,
                   queryWords, bodyWords, thrown, scanVars>>

\* Lines 286-297.
UniqueSingleWordMatch ==
    /\ pc = "unique"
    /\ IF Num("uniqueSingleWordMatchPoints") # 0
          /\ Num("uniqueSingleWordMatchLengthMultiplier") # 0
       THEN /\ score' = score + Num("uniqueSingleWordMatchPoints")
                                * getUniqueSingleWordMatchScore(queryWords, bodyWords,
                                      Num("uniqueSingleWordMatchLengthMultiplier"))
            /\ invoked' = invoked \cup {"getUniqueSingleWordMatchScore"}
       ELSE UNCHANGED <<score, invoked>>
    /\ pc' = "consecutive"
    /\ UNCHANGED <<query, body, options, cfg, formattedQuery, formattedBody,
                   queryWords, bodyWords, thrown, scanVars>>

\* The condition of lines 299-304 with || in the place of each &&.
ConsecutiveEnabledByAnyNumber ==
    \/ Num("consecutiveWordMatchPoints") # 0
    \/ Num("consecutiveWordMatchLengthMultiplier") # 0
    \/ Num("consecutiveWordSequenceMatchPoints") # 0
    \/ Num("consecutiveWordSequenceLengthMultiplier") # 0

\* The condition of lines 299-304.
ConsecutiveEnabled ==
    \/ Num("consecutiveWordMatchPoints") # 0
       /\ Num("consecutiveWordMatchLengthMultiplier") # 0
    \/ Num("consecutiveWordSequenceMatchPoints") # 0
       /\ Num("consecutiveWordSequenceLengthMultiplier") # 0

\* Lines 299-315, the condition false.
ConsecutiveSkip ==
    /\ pc = "consecutive"
    /\ ~ConsecutiveEnabled
    /\ pc' = "return"
    /\ UNCHANGED <<query, body, options, cfg, score, formattedQuery,
                   formattedBody, queryWords, bodyWords, invoked, thrown,
                   scanVars>>

\* Lines 305-311 and 145-149: the scorer is entered.
ConsecutiveCall ==
    /\ pc = "consecutive"
    /\ ConsecutiveEnabled
    /\ invoked' = invoked \cup {"getConsecutiveWordSequenceMatchScore"}
    /\ mostConsecutiveWords' = 0
    /\ longestConsecutiveWordSequence' = 0
    /\ firstQueryWord' = 0
    /\ pc' = "outer"
    /\ UNCHANGED <<query, body, options, cfg, score, formattedQuery,
                   formattedBody, queryWords, bodyWords, thrown, firstBodyWord,
                   matchIndexes, currentConsecutiveWords,
                   currentConsecutiveWordSequence>>

\* Lines 150-162: one more query word; its matches in the body are listed
\* and the inner loop starts at 0.
OuterStep ==
    /\ pc = "outer"
    /\ firstQueryWord < Len(queryWords)
    /\ matchIndexes' = MatchIndexes(bodyWords, queryWords[firstQueryWord + 1])
    /\ currentConsecutiveWords' = 0
    /\ currentConsecutiveWordSequence' = 0
    /\ firstBodyWord' = 0
    /\ pc' = "inner"
    /\ UNCHANGED <<query, body, options, cfg, score, formattedQuery,
                   formattedBody, queryWords, bodyWords, invoked, thrown,
                   firstQueryWord, mostConsecutiveWords,
                   longestConsecutiveWordSequence>>

\* Lines 166-179: the words differ; the maxima are assigned and the inner
\* loop is left.
InnerBreak ==
    /\ pc = "inner"
    /\ firstBodyWord < Len(matchIndexes)
    /\ WordsDiffer(queryWords, firstQueryWord + currentConsecutiveWords,
                   bodyWords, firstBodyWord + currentConsecutiveWords)
    /\ mostConsecutiveWords' = Max(mostConsecutiveWords, currentConsecutiveWords)
    /\ longestConsecutiveWordSequence' =
           Max(longestConsecutiveWordSequence, currentConsecutiveWordSequence)
    /\ firstQueryWord' = firstQueryWord + 1
    /\ pc' = "outer"
    /\ UNCHANGED <<query, body, options, cfg, score, formattedQuery,
                   formattedBody, queryWords, bodyWords, invoked, thrown,
                   firstBodyWord, matchIndexes, currentConsecutiveWords,
                   currentConsecutiveWordSequence>>

\* Lines 181-183 and the increment of line 164: the words are equal.
InnerExtend ==
    /\ pc = "inner"
    /\ firstBodyWord < Len(matchIndexes)
    /\ ~WordsDiffer(queryWords, firstQueryWord + currentConsecutiveWords,
                    bodyWords, firstBodyWord + currentConsecutiveWords)
    /\ Defined(bodyWords, firstBodyWord + currentConsecutiveWords)
    /\ currentConsecutiveWordSequence' =
           currentConsecutiveWordSequence
           + Len(bodyWords[firstBodyWord + currentConsecutiveWords + 1])
    /\ currentConsecutiveWords' = currentConsecutiveWords + 1
    /\ firstBodyWord' = firstBodyWord + 1
    /\ UNCHANGED <<query, body, options, cfg, pc, score, formattedQuery,
                   formattedBody, queryWords, bodyWords, invoked, thrown,
                   firstQueryWord, matchIndexes, mostConsecutiveWords,
                   longestConsecutiveWordSequence>>

\* Lines 181-182 when both elements are missing: undefined equals undefined,
\* and .length of undefined is a TypeError that ends search.
InnerThrow ==
    /\ pc = "inner"
    /\ firstBodyWord < Len(matchIndexes)
    /\ ~WordsDiffer(queryWords, firstQueryWord + currentConsecutiveWords,
                    bodyWords, firstBodyWord + currentConsecutiveWords)
    /\ ~Defined(bodyWords, firstBodyWord + currentConsecutiveWords)
    /\ thrown' = "TypeError"
    /\ pc' = "thrown"
    /\ UNCHANGED <<query, body, options, cfg, score, formattedQuery,
                   formattedBody, queryWords, bodyWords, invoked, scanVars>>

\* InnerEnd assigning the maxima as the break does.
InnerEndRecording ==
    /\ pc = "inner"
    /\ firstBodyWord >= Len(matchIndexes)
    /\ mostConsecutiveWords' = Max(mostConsecutiveWords, currentConsecutiveWords)
    /\ longestConsecutiveWordSequence' =
           Max(longestConsecutiveWordSequence, currentConsecutiveWordSequence)
    /\ firstQueryWord' = firstQueryWord + 1
    /\ pc' = "outer"
    /\ UNCHANGED <<query, body, options, cfg, score, formattedQuery,
                   formattedBody, queryWords, bodyWords, invoked, thrown,
                   firstBodyWord, matchIndexes, currentConsecutiveWords,
                   currentConsecutiveWordSequence>>

\* Line 163 false: the inner loop ends without a break and assigns nothing.
InnerEnd ==
    /\ pc = "inner"
    /\ firstBodyWord >= Len(matchIndexes)
    /\ firstQueryWord' = firstQueryWord + 1
    /\ pc' = "outer"
    /\ UNCHANGED <<query, body, options, cfg, score, formattedQuery,
                   formattedBody, queryWords, bodyWords, invoked, thrown,
                   firstBodyWord, matchIndexes, currentConsecutiveWords,
                   currentConsecutiveWordSequence, mostConsecutiveWords,
                   longestConsecutiveWordSequence>>

\* OuterEnd with -= in the place of += on lines 313 and 314.
OuterEndSubtracting ==
    /\ pc = "outer"
    /\ firstQueryWord >= Len(queryWords)
    /\ score' = score
                - Num("consecutiveWordMatchPoints")
                  * (mostConsecutiveWords
                     * Num("consecutiveWordMatchLengthMultiplier") * 10)
                - Num("consecutiveWordSequenceMatchPoints")
                  * (longestConsecutiveWordSequence
                     * Num("consecutiveWordSequenceLengthMultiplier") * 10)
    /\ pc' = "return"
    /\ UNCHANGED <<query, body, options, cfg, formattedQuery, formattedBody,
                   queryWords, bodyWords, invoked, thrown, scanVars>>

\* Lines 187-192 and 313-314: the two maxima are scaled (halves, brought to
\* twentieths) and added to the score.
OuterEnd ==
    /\ pc = "outer"
    /\ firstQueryWord >= Len(queryWords)
    /\ score' = score
                + Num("consecutiveWordMatchPoints")
                  * (mostConsecutiveWords
                     * Num("consecutiveWordMatchLengthMultiplier") * 10)
                + Num("consecutiveWordSequenceMatchPoints")
                  * (longestConsecutiveWordSequence
                     * Num("consecutiveWordSequenceLengthMultiplier") * 10)
    /\ pc' = "return"
    /\ UNCHANGED <<query, body, options, cfg, formattedQuery, formattedBody,
                   queryWords, bodyWords, invoked, thrown, scanVars>>

\* Line 317.
Return ==
    /\ pc = "return"
    /\ pc' = "returned"
    /\ UNCHANGED <<query, body, options, cfg, score, formattedQuery,
                   formattedBody, queryWords, bodyWords, invoked, thrown,
                   scanVars>>

Next ==
    \/ Merge
    \/ Normalize
    \/ ExactMatch
    \/ ExactContainingSkip
    \/ ExactContainingMatch
    \/ ExactContainingThrow
    \/ Words
    \/ SingleWordMatch
    \/ UniqueSingleWordMatch
    \/ ConsecutiveSkip
    \/ ConsecutiveCall
    \/ OuterStep
    \/ InnerBreak
    \/ InnerExtend
    \/ InnerThrow
    \/ InnerEnd
    \/ OuterEnd
    \/ Return

Spec == Init /\ [][Next]_vars

-----------------------------------------------------------------------------
(* The configuration merge alone, over overrides that may hold undefined.  *)

InitMerge ==
    /\ query = <<>>
    /\ body = <<>>
    /\ options \in SmallOverrides
    /\ cfg = defaultSearchOptions
    /\ pc = "merge"
    /\ queryWords = <<>>
    /\ bodyWords = <<>>
    /\ Idle

SpecMerge == InitMerge /\ [][Merge]_vars

-----------------------------------------------------------------------------
(* The normalizer alone, over texts of its own alphabet.                   *)

InitNorm ==
    /\ query = <<>>
    /\ body \in SeqsUpTo(NormChars, MaxTextLen)
    /\ options \in FlagOverrides(FlagKeys \ {"shouldMatchWhitespaceAndPunctuation"})
    /\ cfg = defaultSearchOptions
    /\ pc = "merge"
    /\ queryWords = <<>>
    /\ bodyWords = <<>>
    /\ Idle

NextNorm == Merge \/ Normalize

SpecNorm == InitNorm /\ [][NextNorm]_vars

-----------------------------------------------------------------------------
(* The scorers over word sequences, under the default configuration.       *)

InitTokens ==
    /\ query = <<>>
    /\ body = <<>>
    /\ options = <<>>
    /\ cfg = defaultSearchOptions
    /\ pc = "single"
    /\ queryWords \in SeqsUpTo(TokenValues, MaxQueryTokens)
    /\ bodyWords \in SeqsUpTo(TokenValues, MaxBodyTokens)
    /\ Idle

NextTokens ==
    \/ SingleWordMatch
    \/ UniqueSingleWordMatch
    \/ ConsecutiveCall
    \/ OuterStep
    \/ InnerBreak
    \/ InnerExtend
    \/ InnerThrow
    \/ InnerEnd
    \/ OuterEnd
    \/ Return

SpecTokens == InitTokens /\ [][NextTokens]_vars

\* The loops taken step by step leave what the loops as a function leave.
ScanMatchesFunction ==
    LET r == ConsecutiveScan(queryWords, bodyWords)
    IN  /\ (thrown = "TypeError") => r.threw
        /\ pc \in {"return", "returned"}
           /\ "getConsecutiveWordSequenceMatchScore" \in invoked
           => /\ ~r.threw
              /\ mostConsecutiveWords = r.mostConsecutiveWords
              /\ longestConsecutiveWordSequence = r.longestConsecutiveWordSequence

-----------------------------------------------------------------------------
(* The properties.                                                         *)

\* The words have been split, or the scorer that reads them has thrown.
AfterWords ==
    \/ pc \in {"single", "unique", "consecutive", "outer", "inner", "return",
               "returned"}
    \/ thrown = "TypeError"

AllPointsZero == \A k \in PointKeys : cfg[k].t = "number" /\ cfg[k].n = 0

NoNegativeNumber ==
    \A k \in PointKeys \cup MultiplierKeys : cfg[k].t = "number" /\ cfg[k].n >= 0

\* No query word occurs more than once among the body words.
NoWordTwice ==
    \A i \in 1..Len(queryWords) : Occurrences(bodyWords, queryWords[i]) <= 1

\* The sum of f[w] over the words of a set.
RECURSIVE SumOfSet(_, _)
SumOfSet(S, f) ==
    IF S = {} THEN 0
    ELSE LET w == CHOOSE x \in S : TRUE
         IN  f[w] + SumOfSet(S \ {w}, f)

\* The distinct query words that occur in the body.
DistinctSharedWords ==
    {queryWords[i] : i \in {j \in 1..Len(queryWords) : Includes(bodyWords, queryWords[j])}}

\* C1: search never fails on a query without pattern syntax characters,
\* whatever the configuration: it never ends in an exception, so the
\* consecutive scorer never takes the length of a missing body word.
C1_SearchIsTotal == PatternIsLiteral(query) => pc # "thrown"

\* C2: after the merge every key the override leaves out or holds as
\* undefined has its default value, and every key supplied with a defined
\* value has the supplied value.
C2_MergeFallsBackToDefault ==
    pc = "normalize" =>
        \A k \in OptionKeys :
            IF k \in DOMAIN options /\ options[k].t # "undefined"
            THEN cfg[k] = options[k]
            ELSE cfg[k] = defaultSearchOptions[k]

\* C3: once the unique word-frequency term is added, the score is the total
\* term plus uniqueSingleWordMatchPoints times the sum, over the distinct
\* words shared by query and body, each counted once, of length times
\* multiplier times word multiplier.
C3_UniqueCountsEachDistinctWordOnce ==
    pc = "consecutive" =>
        score = Num("singleWordMatchPoints")
                * getSingleWordMatchScore(queryWords, bodyWords,
                      Num("singleWordMatchLengthMultiplier"))
                + Num("uniqueSingleWordMatchPoints")
                  * SumOfSet(DistinctSharedWords,
                        [w \in DistinctSharedWords |->
                            Len(w) * Num("uniqueSingleWordMatchLengthMultiplier")
                            * getCustomWordMultiplier(w)])

\* C4: with an empty query every strategy contributes 0, so the running
\* score is 0 at every point of search, whatever the body and configuration.
C4_EmptyQueryContributesNothing == query = <<>> => score = 0

\* C5: with all six point weights 0 no scorer function is called, search
\* does not throw, and the score it returns is 0, for every query, body,
\* multiplier and flag.
C5_ZeroWeightsShortCircuit ==
    pc # "merge" /\ AllPointsZero =>
        /\ invoked = {}
        /\ pc # "thrown"
        /\ score = 0

\* C5 witness: search has returned under all-zero weights on a query whose
\* pattern would not compile and with multipliers that are not 0.
C5_Witness ==
    /\ pc = "returned"
    /\ AllPointsZero
    /\ PatternThrows(formattedQuery)
    /\ Num("consecutiveWordMatchLengthMultiplier") # 0
    /\ Len(bodyWords) > 1

C7_PositionIndependent ==
    pc = "returned" =>
        \A t \in TokenValues :
            LET r == ConsecutiveScan(queryWords, <<t>> \o bodyWords)
            IN  ~Includes(queryWords, t) /\ ~r.threw =>
                    /\ r.mostConsecutiveWords = mostConsecutiveWords
                    /\ r.longestConsecutiveWordSequence
                       = longestConsecutiveWordSequence

C9_NormalizationIdempotent ==
    pc = "exact" =>
        /\ getConfiguredText(formattedBody, Flag("isCaseSensitive"),
                             Flag("shouldMatchPunctuation"),
                             Flag("shouldCollapseWhitespace")) = formattedBody
        /\ getConfiguredText(formattedQuery, Flag("isCaseSensitive"),
                             Flag("shouldMatchPunctuation"),
                             Flag("shouldCollapseWhitespace")) = formattedQuery

\* C9 witness: a body without a whitespace run of its own has been
\* normalized with punctuation removal and collapsing on, and the removal
\* made a run that the collapsing then shortened.
C9_Witness ==
    /\ pc = "exact"
    /\ ~Flag("shouldMatchPunctuation")
    /\ Flag("shouldCollapseWhitespace")
    /\ CollapseWhitespace(body) = body
    /\ Len(formattedBody)
       < Len(DeleteDeletedPunctuation(ReplaceSpacedPunctuation(body)))

\* C10: in the delimiter-retaining mode the body words are 2n+1 many, words
\* at the even indexes (from 0) and non-empty delimiters at the odd ones, no
\* word occurs more than n+1 times, the inner loop reads body index 2k only,
\* which is below the number of body words, and no missing body word is
\* dereferenced.
C10_DelimiterModeStaysInRange ==
    AfterWords /\ Flag("shouldMatchWhitespaceAndPunctuation") =>
        /\ Len(bodyWords) % 2 = 1
        /\ \A i \in 1..Len(bodyWords) :
              IF i % 2 = 1
              THEN \A j \in 1..Len(bodyWords[i]) : bodyWords[i][j] \in WordChars
              ELSE /\ bodyWords[i] # <<>>
                   /\ \A j \in 1..Len(bodyWords[i]) :
                         bodyWords[i][j] \notin WordChars
        /\ \A i \in 1..Len(bodyWords) :
              Occurrences(bodyWords, bodyWords[i]) <= (Len(bodyWords) + 1) \div 2
        /\ pc = "inner" =>
              /\ currentConsecutiveWords = firstBodyWord
              /\ firstBodyWord < Len(matchIndexes) =>
                    Defined(bodyWords, firstBodyWord + currentConsecutiveWords)
        /\ thrown # "TypeError"

\* C10 witness: in the delimiter-retaining mode the inner loop is about to
\* read the last body word, at index 2k with k > 0.
C10_Witness ==
    /\ pc = "inner"
    /\ Flag("shouldMatchWhitespaceAndPunctuation")
    /\ firstBodyWord > 0
    /\ firstBodyWord < Len(matchIndexes)
    /\ firstBodyWord + currentConsecutiveWords = Len(bodyWords) - 1

====
